---------------------------- MODULE Spec2Model ----------------------------
(***************************************************************************)
(* APRS coordinate codec (src/src/lonlat.rs) and status report decoder     *)
(* (src/src/status.rs).                                                    *)
(*                                                                         *)
(* Bytes are their ASCII codes, byte strings are sequences of codes.       *)
(* An f64 is a record: NaN, or the exact rational num/den (den > 0).  The  *)
(* arithmetic of the codec is carried out exactly on these rationals, so   *)
(* the model follows the code's truncations, roundings and comparisons and *)
(* leaves out only the binary rounding error of f64.                       *)
(*                                                                         *)
(* One call is one step: from the idle state an action draws the call's    *)
(* arguments and stores its result.  A second step feeds the bytes an      *)
(* encoder wrote back to the matching parser, or a parsed value back to    *)
(* the encoder.                                                            *)
(***************************************************************************)
EXTENDS Integers, Sequences, FiniteSets, TLC

VARIABLES pc, op, arg, ret, back

vars == <<pc, op, arg, ret, back>>

-----------------------------------------------------------------------------
(* Bounds of the model *)

\* the grid of values given to the uncompressed encoders has SubDiv points
\* per hundredth of a minute
SubDiv == 2

\* the grid of values given to the compressed encoders has CompGrid points
\* per degree
CompGrid == 4

\* longest comment that follows a timestamp candidate in a status report
MaxComment == 2

-----------------------------------------------------------------------------
(* ASCII codes the code names *)

SPACE == 32
DOT == 46
ZERO == 48
CH_N == 78
CH_S == 83
CH_E == 69
CH_W == 87

\* a byte that is no digit, space, dot or hemisphere letter (b'Z', as in
\* the test "00000.ZZW")
CH_Z == 90

-----------------------------------------------------------------------------
(* Option, Result, f64 *)

None == [some |-> FALSE]

Some(x) == [some |-> TRUE, v |-> x]

Ok(x) == [ok |-> TRUE, val |-> x]

\* mutant of Err: the error does not keep the bytes
Err_without_bytes(kind, b) == [ok |-> FALSE, err |-> kind, bytes |-> <<>>]

Err(kind, b) == [ok |-> FALSE, err |-> kind, bytes |-> b]

F64(n, d) == [nan |-> FALSE, num |-> n, den |-> d]

NaN == [nan |-> TRUE, num |-> 0, den |-> 1]

Neg(x) == IF x.nan THEN x ELSE F64(-x.num, x.den)

Abs(i) == IF i < 0 THEN -i ELSE i

Min(a, b) == IF a < b THEN a ELSE b

\* x > k and x < k for an f64 x and an integer k; both are false of NaN
GtInt(x, k) == ~x.nan /\ x.num > k * x.den

LtInt(x, k) == ~x.nan /\ x.num < k * x.den

-----------------------------------------------------------------------------
(* Precision (lib.rs): the number of blanked trailing digits *)

Precisions ==
    {"HundredthMinute", "TenthMinute", "OneMinute", "TenMinute", "OneDegree", "TenDegree"}

PrecisionTable ==
    <<"HundredthMinute", "TenthMinute", "OneMinute", "TenMinute", "OneDegree", "TenDegree">>

Precision_default == "HundredthMinute"

Precision_num_digits(p) == (CHOOSE i \in 1..6 : PrecisionTable[i] = p) - 1

Precision_from_num_digits(n) == IF n \in 0..5 THEN Some(PrecisionTable[n + 1]) ELSE None

-----------------------------------------------------------------------------
(* bytes::parse_bytes::<u32>: a non-empty string of ASCII digits *)

IsDigit(c) == c \in ZERO..(ZERO + 9)

RECURSIVE DigitsValue(_)
DigitsValue(b) ==
    IF Len(b) = 0 THEN 0
    ELSE 10 * DigitsValue(SubSeq(b, 1, Len(b) - 1)) + (b[Len(b)] - ZERO)

parse_bytes(b) ==
    IF Len(b) > 0 /\ \A i \in 1..Len(b) : IsDigit(b[i]) THEN Some(DigitsValue(b)) ELSE None

\* "{:0w}" of an unsigned integer: its decimal digits, zero-padded to at
\* least w characters, never cut
RECURSIVE Decimal(_)
Decimal(n) == IF n < 10 THEN <<ZERO + n>> ELSE Decimal(n \div 10) \o <<ZERO + (n % 10)>>

RECURSIVE PadZero(_, _)
PadZero(n, w) == IF Len(Decimal(n)) >= w THEN Decimal(n) ELSE <<ZERO>> \o PadZero(n, w - 1)


-----------------------------------------------------------------------------
(* Latitude *)

\* mutant of Latitude_new: the lower bound is not checked
Latitude_new_no_lower_bound(value) ==
    IF GtInt(value, 90) \/ value.nan THEN None ELSE Some(value)

Latitude_new(value) ==
    IF GtInt(value, 90) \/ LtInt(value, -90) \/ value.nan THEN None ELSE Some(value)

\* mutant of parse_bytes_trailing_spaces: only_spaces is not looked at
parse_bytes_trailing_spaces_flag_ignored(b, only_spaces) ==
    IF b[1] = SPACE /\ b[2] = SPACE
    THEN Some([value |-> 0, spaces |-> 2])
    ELSE IF b[2] = SPACE
         THEN LET r == parse_bytes(SubSeq(b, 1, 1))
              IN  IF r.some THEN Some([value |-> r.v * 10, spaces |-> 1]) ELSE None
         ELSE LET r == parse_bytes(b)
              IN  IF r.some THEN Some([value |-> r.v, spaces |-> 0]) ELSE None

\* if only_spaces is true, requires that b is only spaces; returns the
\* parsed value as well as the number of spaces found
parse_bytes_trailing_spaces(b, only_spaces) ==
    IF only_spaces
    THEN IF b = <<SPACE, SPACE>> THEN Some([value |-> 0, spaces |-> 2]) ELSE None
    ELSE IF b[1] = SPACE /\ b[2] = SPACE
         THEN Some([value |-> 0, spaces |-> 2])
         ELSE IF b[2] = SPACE
              THEN LET r == parse_bytes(SubSeq(b, 1, 1))
                   IN  IF r.some THEN Some([value |-> r.v * 10, spaces |-> 1]) ELSE None
              ELSE LET r == parse_bytes(b)
                   IN  IF r.some THEN Some([value |-> r.v, spaces |-> 0]) ELSE None

\* deg + min / 60 + min_frac / 6000, negated in the negative hemisphere
DegMinValue(deg, min, min_frac, positive) ==
    LET value == F64(deg * 6000 + min * 100 + min_frac, 6000)
    IN  IF positive THEN value ELSE Neg(value)

Latitude_parse_uncompressed(b) ==
    IF Len(b) # 8 \/ b[5] # DOT THEN Err("InvalidLatitude", b)
    ELSE IF b[8] \notin {CH_N, CH_S} THEN Err("InvalidLatitude", b)
    ELSE
    LET north == (b[8] = CH_N)
        d == parse_bytes_trailing_spaces(<<b[1], b[2]>>, FALSE)
    IN  IF ~d.some THEN Err("InvalidLatitude", b) ELSE
    LET m == parse_bytes_trailing_spaces(<<b[3], b[4]>>, d.v.spaces > 0)
    IN  IF ~m.some THEN Err("InvalidLatitude", b) ELSE
    LET f == parse_bytes_trailing_spaces(<<b[6], b[7]>>, m.v.spaces > 0)
    IN  IF ~f.some THEN Err("InvalidLatitude", b) ELSE
    LET total_spaces == d.v.spaces + m.v.spaces + f.v.spaces
        precision == Precision_from_num_digits(total_spaces)
    IN  IF ~precision.some THEN Err("InvalidLatitude", b) ELSE
    LET lat == Latitude_new(DegMinValue(d.v.value, m.v.value, f.v.value, north))
    IN  IF ~lat.some THEN Err("InvalidLatitude", b)
        ELSE Ok([lat |-> lat.v, precision |-> precision.v])

\* the three integers the uncompressed encoders compute from |value| = num/den:
\*   deg = value as u32
\*   min = ((value - deg) * 60.0) as u32
\*   min_frac = ((value - deg - min / 60.0) * 6000.0).round() as u32
\* (round: to the nearest integer, a half away from zero)
DegOf(num, den) == num \div den

MinOf(num, den) == ((num - DegOf(num, den) * den) * 60) \div den

MinFracOf(num, den) ==
    LET r == (num - DegOf(num, den) * den) * 60 - MinOf(num, den) * den
    IN  (200 * r + den) \div (2 * den)

\* write!(&mut slice, ..) of the string s to a slice of n bytes: the bytes
\* that fit are copied, the error of the rest is dropped
WriteToSlice(s, n) == SubSeq(s, 1, Min(Len(s), n))

\* mutant of blank_index: counted from 7 digits, as for a longitude
blank_index_of_seven(precision) == 7 - Precision_num_digits(precision)

\* the number of leading digits of DDMMff that are written
blank_index(precision) == 6 - Precision_num_digits(precision)

Latitude_encode_uncompressed(self, precision) ==
    LET north == self.num >= 0
        dir == IF north THEN CH_N ELSE CH_S
        num == Abs(self.num)
        deg == DegOf(num, self.den)
        min == MinOf(num, self.den)
        min_frac == MinFracOf(num, self.den)
        written == WriteToSlice(PadZero(deg, 2) \o PadZero(min, 2) \o PadZero(min_frac, 2),
                                blank_index(precision))
        digit_buffer == [i \in 1..6 |-> IF i <= Len(written) THEN written[i] ELSE SPACE]
    IN  SubSeq(digit_buffer, 1, 4) \o <<DOT>> \o SubSeq(digit_buffer, 5, 6) \o <<dir>>

-----------------------------------------------------------------------------
(* Longitude *)

Longitude_new(value) ==
    IF GtInt(value, 180) \/ LtInt(value, -180) \/ value.nan THEN None ELSE Some(value)

\* mutant of zeroed_digit_buffer: the zeroing starts one position late
zeroed_digit_buffer_one_late(b, precision) ==
    LET copied == SubSeq(b, 1, 5) \o SubSeq(b, 7, 8)
    IN  [i \in 1..7 |-> IF i > 8 - Precision_num_digits(precision) THEN ZERO ELSE copied[i]]

\* the seven bytes of DDDMMff, the last num_digits of them zeroed
zeroed_digit_buffer(b, precision) ==
    LET copied == SubSeq(b, 1, 5) \o SubSeq(b, 7, 8)
    IN  [i \in 1..7 |-> IF i > 7 - Precision_num_digits(precision) THEN ZERO ELSE copied[i]]

Longitude_parse_uncompressed(b, precision) ==
    IF Len(b) # 9 \/ b[6] # DOT THEN Err("InvalidLongitude", b)
    ELSE IF b[9] \notin {CH_E, CH_W} THEN Err("InvalidLongitude", b)
    ELSE
    LET east == (b[9] = CH_E)
        digit_buffer == zeroed_digit_buffer(b, precision)
        deg == parse_bytes(SubSeq(digit_buffer, 1, 3))
    IN  IF ~deg.some THEN Err("InvalidLongitude", b) ELSE
    LET min == parse_bytes(SubSeq(digit_buffer, 4, 5))
    IN  IF ~min.some THEN Err("InvalidLongitude", b) ELSE
    LET min_frac == parse_bytes(SubSeq(digit_buffer, 6, 7))
    IN  IF ~min_frac.some THEN Err("InvalidLongitude", b) ELSE
    LET lon == Longitude_new(DegMinValue(deg.v, min.v, min_frac.v, east))
    IN  IF ~lon.some THEN Err("InvalidLongitude", b) ELSE Ok(lon.v)

Longitude_encode_uncompressed(self) ==
    LET east == self.num >= 0
        dir == IF east THEN CH_E ELSE CH_W
        num == Abs(self.num)
        deg == DegOf(num, self.den)
        min == MinOf(num, self.den)
        min_frac == MinFracOf(num, self.den)
    IN  PadZero(deg, 3) \o PadZero(min, 2) \o <<DOT>> \o PadZero(min_frac, 2) \o <<dir>>

-----------------------------------------------------------------------------
(* base91 (base91.rs): digits are the bytes '!' (0) to '{' (90) *)

BANG == 33

RECURSIVE Pow91(_)
Pow91(w) == IF w = 0 THEN 1 ELSE 91 * Pow91(w - 1)

RECURSIVE base91_decode_ascii(_)
base91_decode_ascii(b) ==
    IF Len(b) = 0 THEN Some(0)
    ELSE LET rest == base91_decode_ascii(SubSeq(b, 1, Len(b) - 1))
             c == b[Len(b)]
         IN  IF ~rest.some \/ c < BANG \/ c > BANG + 90 THEN None
             ELSE Some(rest.v * 91 + (c - BANG))

\* the integer an f64 val >= 0 is encoded as: cut ("trunc") or rounded to
\* the nearest ("round"); the codec's choice is not visible from lonlat.rs
ToInteger(val, rounding) ==
    IF rounding = "trunc" THEN val.num \div val.den
    ELSE (2 * val.num + val.den) \div (2 * val.den)

RECURSIVE Base91Digits(_, _)
Base91Digits(n, width) ==
    IF width = 0 THEN <<>>
    ELSE Base91Digits(n \div 91, width - 1) \o <<BANG + (n % 91)>>

base91_encode_ascii(val, width, rounding) ==
    LET n == ToInteger(val, rounding)
    IN  IF n < 0 \/ n >= Pow91(width) THEN [ok |-> FALSE, buf |-> <<>>]
        ELSE [ok |-> TRUE, buf |-> Base91Digits(n, width)]

-----------------------------------------------------------------------------
(* the compressed forms *)

\* 90.0 - n / 380926.0
Latitude_parse_compressed(b) ==
    LET n == base91_decode_ascii(b)
    IN  IF ~n.some THEN Err("InvalidLatitude", b) ELSE
        LET lat == Latitude_new(F64(90 * 380926 - n.v, 380926))
        IN  IF ~lat.some THEN Err("InvalidLatitude", b) ELSE Ok(lat.v)

\* mutant of Latitude_encode_compressed: the scale of the longitude
Latitude_encode_compressed_lon_scale(self, rounding) ==
    base91_encode_ascii(F64((90 * self.den - self.num) * 190463, self.den), 4, rounding)

\* (90.0 - self) * 380926.0
Latitude_encode_compressed(self, rounding) ==
    base91_encode_ascii(F64((90 * self.den - self.num) * 380926, self.den), 4, rounding)

\* n / 190463.0 - 180.0
Longitude_parse_compressed(b) ==
    LET n == base91_decode_ascii(b)
    IN  IF ~n.some THEN Err("InvalidLongitude", b) ELSE
        LET lon == Longitude_new(F64(n.v - 180 * 190463, 190463))
        IN  IF ~lon.some THEN Err("InvalidLongitude", b) ELSE Ok(lon.v)

\* (180.0 + self) * 190463.0
Longitude_encode_compressed(self, rounding) ==
    base91_encode_ascii(F64((180 * self.den + self.num) * 190463, self.den), 4, rounding)

-----------------------------------------------------------------------------
(* AprsStatus *)

CH_GT == 62
CH_z == 122
CH_h == 104

\* Timestamp::try_from (timestamp.rs): six digits and the format letter,
\* "281205z" (day, hour, minute) or "120503h" (hour, minute, second)
Timestamp_try_from(b) ==
    IF Len(b) # 7 THEN None
    ELSE LET one == parse_bytes(SubSeq(b, 1, 2))
             two == parse_bytes(SubSeq(b, 3, 4))
             three == parse_bytes(SubSeq(b, 5, 6))
         IN  IF ~one.some \/ ~two.some \/ ~three.some THEN None
             ELSE IF b[7] = CH_z THEN Some([format |-> "DDHHMM", f |-> <<one.v, two.v, three.v>>])
             ELSE IF b[7] = CH_h THEN Some([format |-> "HHMMSS", f |-> <<one.v, two.v, three.v>>])
             ELSE None

\* mutant of AprsStatus_decode: the timestamp is not cut off the comment
AprsStatus_decode_whole_comment(b, to) ==
    LET timestamp == IF Len(b) >= 7 THEN Timestamp_try_from(SubSeq(b, 1, 7)) ELSE None
    IN  Ok([to |-> to, data_type_identifier |-> CH_GT,
            timestamp |-> timestamp, comment |-> b])

AprsStatus_decode(b, to) ==
    LET timestamp == IF Len(b) >= 7 THEN Timestamp_try_from(SubSeq(b, 1, 7)) ELSE None
        comment == IF timestamp.some THEN SubSeq(b, 8, Len(b)) ELSE b
    IN  Ok([to |-> to, data_type_identifier |-> CH_GT,
            timestamp |-> timestamp, comment |-> comment])

-----------------------------------------------------------------------------
(* The arguments the calls are drawn from *)

Prefixes(s) == {SubSeq(s, 1, n) : n \in 0..Len(s)}

\* the byte strings of the tests of lonlat.rs, and one of 10 bytes
TestVectors ==
    {
     <<52, 57, 48, 51, 46, 53, 48, 78>>,             \* "4903.50N"
     <<52, 57, 48, 51, 46, 53, 48, 83>>,             \* "4903.50S"
     <<52, 57, 48, 51, 46, 53, 32, 83>>,             \* "4903.5 S"
     <<52, 57, 48, 51, 46, 32, 32, 83>>,             \* "4903.  S"
     <<52, 57, 48, 32, 46, 32, 32, 83>>,             \* "490 .  S"
     <<52, 32, 32, 32, 46, 32, 32, 83>>,             \* "4   .  S"
     <<32, 32, 32, 32, 46, 32, 32, 83>>,             \* "    .  S"
     <<52, 57, 32, 51, 46, 53, 48, 87>>,             \* "49 3.50W"
     <<52, 57, 48, 32, 46, 53, 48, 87>>,             \* "490 .50W"
     <<52, 57, 32, 32, 46, 32, 48, 87>>,             \* "49  . 0W"
     <<52, 57, 48, 51, 46, 53, 48, 87>>,             \* "4903.50W"
     <<52, 57, 48, 51, 46, 53, 48, 69>>,             \* "4903.50E"
     <<57, 57, 48, 51, 46, 53, 48, 78>>,             \* "9903.50N"
     <<48, 48, 48, 48, 46, 48, 48, 78>>,             \* "0000.00N"
     <<48, 48, 48, 48, 46, 48, 48, 83>>,             \* "0000.00S"
     <<49, 50, 57, 48, 51, 46, 53, 48, 69>>,         \* "12903.50E"
     <<48, 52, 57, 48, 51, 46, 53, 48, 87>>,         \* "04903.50W"
     <<48, 52, 57, 48, 51, 46, 53, 48, 78>>,         \* "04903.50N"
     <<48, 52, 57, 48, 51, 46, 53, 48, 83>>,         \* "04903.50S"
     <<49, 56, 57, 48, 51, 46, 53, 48, 69>>,         \* "18903.50E"
     <<48, 48, 48, 48, 48, 46, 48, 48, 69>>,         \* "00000.00E"
     <<48, 48, 48, 48, 48, 46, 48, 48, 87>>,         \* "00000.00W"
     <<48, 48, 48, 48, 48, 46, 90, 90, 87>>,         \* "00000.ZZW"
     <<48, 48, 48, 48, 48, 46, 57, 56, 87>>,         \* "00000.98W"
     <<49, 56, 48, 48, 48, 46, 48, 48, 69, 88>>}     \* "18000.00EX"

\* strings of every length from 0 to 10
OtherTexts == UNION {Prefixes(s) : s \in TestVectors}

LatDigitAlphabet == {ZERO, ZERO + 9, SPACE, CH_Z}

\* 8 bytes: six digit positions, the byte at offset 4, the hemisphere byte
LatTexts ==
    {<<d1, d2, m1, m2, dot, f1, f2, h>> :
        d1 \in LatDigitAlphabet, d2 \in LatDigitAlphabet,
        m1 \in LatDigitAlphabet, m2 \in LatDigitAlphabet,
        dot \in {DOT, ZERO},
        f1 \in LatDigitAlphabet, f2 \in LatDigitAlphabet,
        h \in {CH_N, CH_S, CH_E}}

LatInputs == LatTexts \cup TestVectors \cup OtherTexts

\* 9 bytes: seven digit positions, the byte at offset 5, the hemisphere byte
LonTexts ==
    {<<d1, d2, d3, m1, m2, dot, f1, f2, h>> :
        d1 \in {ZERO, ZERO + 1, CH_Z}, d2 \in {ZERO, ZERO + 8, ZERO + 9},
        d3 \in {ZERO, CH_Z},
        m1 \in {ZERO, ZERO + 6}, m2 \in {ZERO, CH_Z},
        dot \in {DOT, ZERO},
        f1 \in {ZERO, ZERO + 9, SPACE}, f2 \in {ZERO, CH_Z},
        h \in {CH_E, CH_W, CH_N}}

LonInputs == LonTexts \cup TestVectors \cup OtherTexts

\* values on a grid of SubDiv points per hundredth of a minute: every
\* point of the first and the last minute of some degrees, both signs
UncDen == 6000 * SubDiv

GridValue(d, m, t, s) == F64(s * ((d * 60 + m) * 100 * SubDiv + t), UncDen)

LatGrid ==
    {GridValue(d, m, t, s) :
        d \in {0, 49, 89, 90}, m \in {0, 59}, t \in 0..(100 * SubDiv - 1), s \in {1, -1}}

LonGrid ==
    {GridValue(d, m, t, s) :
        d \in {0, 129, 179, 180}, m \in {0, 59}, t \in 0..(100 * SubDiv - 1), s \in {1, -1}}

\* the values a Latitude / a Longitude can hold
Latitudes == {v \in LatGrid : Latitude_new(v).some}

Longitudes == {v \in LonGrid : Longitude_new(v).some}

\* every multiple of 1/CompGrid degree in range
CompLatitudes == {F64(k, CompGrid) : k \in (-90 * CompGrid)..(90 * CompGrid)}

CompLongitudes == {F64(k, CompGrid) : k \in (-180 * CompGrid)..(180 * CompGrid)}

\* up to four bytes: base-91 digits 0, 1, 45 and 90, and two bytes that are none
CompAlphabet == {BANG, BANG + 1, BANG + 45, BANG + 90, BANG + 91, SPACE}

CompTexts == UNION {[1..n -> CompAlphabet] : n \in 0..4}

\* a status report: a timestamp candidate and a comment, or a prefix of these
Comments == UNION {[1..n -> {CH_h, ZERO + 2}] : n \in 0..MaxComment}

StatusTexts ==
    {<<a, b, c, d, e, f, g>> \o cm :
        a \in {ZERO + 2, CH_Z}, b \in {ZERO + 2, CH_Z}, c \in {ZERO + 2, CH_Z},
        d \in {ZERO + 2, CH_Z}, e \in {ZERO + 2, CH_Z}, f \in {ZERO + 2, CH_Z},
        g \in {CH_z, CH_h, CH_Z}, cm \in Comments}

StatusInputs == UNION {Prefixes(s) : s \in StatusTexts}

Callsigns == {"VE9", "N0CALL"}

-----------------------------------------------------------------------------
(* The calls *)

Nothing == [none |-> TRUE]

Init ==
    /\ pc = "idle"
    /\ op = "none"
    /\ arg = Nothing
    /\ ret = Nothing
    /\ back = Nothing

NewLatitude ==
    /\ pc = "idle"
    /\ \E v \in LatGrid \cup {NaN} :
          /\ op' = "Latitude::new"
          /\ arg' = [value |-> v]
          /\ ret' = Latitude_new(v)
    /\ pc' = "done"
    /\ back' = Nothing

NewLongitude ==
    /\ pc = "idle"
    /\ \E v \in LonGrid \cup {NaN} :
          /\ op' = "Longitude::new"
          /\ arg' = [value |-> v]
          /\ ret' = Longitude_new(v)
    /\ pc' = "done"
    /\ back' = Nothing

ParseUncompressedLatitude ==
    /\ pc = "idle"
    /\ \E b \in LatInputs :
          /\ op' = "Latitude::parse_uncompressed"
          /\ arg' = [b |-> b]
          /\ ret' = Latitude_parse_uncompressed(b)
    /\ pc' = "done"
    /\ back' = Nothing

ParseUncompressedLongitude ==
    /\ pc = "idle"
    /\ \E b \in LonInputs, p \in Precisions :
          /\ op' = "Longitude::parse_uncompressed"
          /\ arg' = [b |-> b, precision |-> p]
          /\ ret' = Longitude_parse_uncompressed(b, p)
    /\ pc' = "done"
    /\ back' = Nothing

\* the sink is a Vec: every write succeeds, buf holds what was written
EncodeUncompressedLatitude ==
    /\ pc = "idle"
    /\ \E v \in Latitudes, p \in Precisions :
          /\ op' = "Latitude::encode_uncompressed"
          /\ arg' = [self |-> v, precision |-> p]
          /\ ret' = [ok |-> TRUE, buf |-> Latitude_encode_uncompressed(v, p)]
    /\ pc' = "done"
    /\ back' = Nothing

EncodeUncompressedLongitude ==
    /\ pc = "idle"
    /\ \E v \in Longitudes :
          /\ op' = "Longitude::encode_uncompressed"
          /\ arg' = [self |-> v]
          /\ ret' = [ok |-> TRUE, buf |-> Longitude_encode_uncompressed(v)]
    /\ pc' = "done"
    /\ back' = Nothing

ParseCompressedLatitude ==
    /\ pc = "idle"
    /\ \E b \in CompTexts :
          /\ op' = "Latitude::parse_compressed"
          /\ arg' = [b |-> b]
          /\ ret' = Latitude_parse_compressed(b)
    /\ pc' = "done"
    /\ back' = Nothing

ParseCompressedLongitude ==
    /\ pc = "idle"
    /\ \E b \in CompTexts :
          /\ op' = "Longitude::parse_compressed"
          /\ arg' = [b |-> b]
          /\ ret' = Longitude_parse_compressed(b)
    /\ pc' = "done"
    /\ back' = Nothing

EncodeCompressedLatitude ==
    /\ pc = "idle"
    /\ \E v \in CompLatitudes, r \in {"trunc", "round"} :
          /\ op' = "Latitude::encode_compressed"
          /\ arg' = [self |-> v, rounding |-> r]
          /\ ret' = Latitude_encode_compressed(v, r)
    /\ pc' = "done"
    /\ back' = Nothing

EncodeCompressedLongitude ==
    /\ pc = "idle"
    /\ \E v \in CompLongitudes, r \in {"trunc", "round"} :
          /\ op' = "Longitude::encode_compressed"
          /\ arg' = [self |-> v, rounding |-> r]
          /\ ret' = Longitude_encode_compressed(v, r)
    /\ pc' = "done"
    /\ back' = Nothing

DecodeStatus ==
    /\ pc = "idle"
    /\ \E b \in StatusInputs, to \in Callsigns :
          /\ op' = "AprsStatus::decode"
          /\ arg' = [b |-> b, to |-> to]
          /\ ret' = AprsStatus_decode(b, to)
    /\ pc' = "done"
    /\ back' = Nothing

\* the bytes an encoder wrote, given to the parser of the same form
ParseBackUncompressedLatitude ==
    /\ pc = "done"
    /\ op = "Latitude::encode_uncompressed"
    /\ back' = Latitude_parse_uncompressed(ret.buf)
    /\ pc' = "back"
    /\ UNCHANGED <<op, arg, ret>>

ParseBackUncompressedLongitude ==
    /\ pc = "done"
    /\ op = "Longitude::encode_uncompressed"
    /\ \E p \in Precisions : back' = [precision |-> p, res |-> Longitude_parse_uncompressed(ret.buf, p)]
    /\ pc' = "back"
    /\ UNCHANGED <<op, arg, ret>>

ParseBackCompressedLatitude ==
    /\ pc = "done"
    /\ op = "Latitude::encode_compressed"
    /\ ret.ok
    /\ back' = Latitude_parse_compressed(ret.buf)
    /\ pc' = "back"
    /\ UNCHANGED <<op, arg, ret>>

ParseBackCompressedLongitude ==
    /\ pc = "done"
    /\ op = "Longitude::encode_compressed"
    /\ ret.ok
    /\ back' = Longitude_parse_compressed(ret.buf)
    /\ pc' = "back"
    /\ UNCHANGED <<op, arg, ret>>

\* a parsed latitude, encoded again with the precision it was parsed with
EncodeBackUncompressedLatitude ==
    /\ pc = "done"
    /\ op = "Latitude::parse_uncompressed"
    /\ ret.ok
    /\ back' = [ok |-> TRUE,
                buf |-> Latitude_encode_uncompressed(ret.val.lat, ret.val.precision)]
    /\ pc' = "back"
    /\ UNCHANGED <<op, arg, ret>>

Next ==
    \/ NewLatitude
    \/ NewLongitude
    \/ ParseUncompressedLatitude
    \/ ParseUncompressedLongitude
    \/ EncodeUncompressedLatitude
    \/ EncodeUncompressedLongitude
    \/ ParseCompressedLatitude
    \/ ParseCompressedLongitude
    \/ EncodeCompressedLatitude
    \/ EncodeCompressedLongitude
    \/ DecodeStatus
    \/ ParseBackUncompressedLatitude
    \/ ParseBackUncompressedLongitude
    \/ ParseBackCompressedLatitude
    \/ ParseBackCompressedLongitude
    \/ EncodeBackUncompressedLatitude

Spec == Init /\ [][Next]_vars

-----------------------------------------------------------------------------
(* Properties *)

\* x as a multiple of 1/d, for d a multiple of x.den
OnGrid(x, d) == x.num * (d \div x.den)

\* |a - b| <= 1/tol, for d a common multiple of a.den, b.den and tol
Within(a, b, d, tol) == Abs(OnGrid(a, d) - OnGrid(b, d)) <= d \div tol

\* C1: the 8 bytes Latitude::encode_uncompressed writes for a valid latitude
\* at hundredth-of-minute precision are accepted by
\* Latitude::parse_uncompressed, and the parsed value is within 1/6000
\* degree of the encoded one.
C1_LatitudeTextRoundTrip ==
    (pc = "back" /\ op = "Latitude::encode_uncompressed"
        /\ arg.precision = Precision_default)
    => /\ Len(ret.buf) = 8
       /\ back.ok
       /\ Within(back.val.lat, arg.self, UncDen, 6000)

\* C2: the bytes Longitude::encode_uncompressed writes for a valid longitude
\* are accepted by Longitude::parse_uncompressed at hundredth-of-minute
\* precision, and the parsed value is within 1/6000 degree of the encoded one.
C2_LongitudeTextRoundTrip ==
    (pc = "back" /\ op = "Longitude::encode_uncompressed"
        /\ back.precision = Precision_default)
    => /\ back.res.ok
       /\ Within(back.res.val, arg.self, UncDen, 6000)

\* C8: Longitude::encode_uncompressed writes exactly 9 bytes DDDMM.ffH: three
\* degree digits, two minute digits in 00..59, a '.', two digits of
\* hundredths of a minute, and E for a value >= 0, W for a value < 0; no
\* position holds a space.
C8_LongitudeLayout ==
    (op = "Longitude::encode_uncompressed")
    => /\ Len(ret.buf) = 9
       /\ \A i \in {1, 2, 3, 4, 5, 7, 8} : IsDigit(ret.buf[i])
       /\ DigitsValue(SubSeq(ret.buf, 4, 5)) \in 0..59
       /\ ret.buf[6] = DOT
       /\ ret.buf[9] = (IF arg.self.num >= 0 THEN CH_E ELSE CH_W)
       /\ \A i \in 1..9 : ret.buf[i] # SPACE

\* the six digit positions (offsets 0, 1, 2, 3, 5, 6) of a latitude text
LatDigits(b) == <<b[1], b[2], b[3], b[4], b[6], b[7]>>

SpaceCount(ds) == Cardinality({j \in 1..Len(ds) : ds[j] = SPACE})

\* C3: Latitude::parse_uncompressed accepts 8 bytes only if the spaces among
\* the six digit positions are the last k of them, 0 <= k <= 5, and the
\* other positions hold digits; the Precision returned is the level of k
\* blanked digits and a blanked digit counts as 0 in the value.
C3_BlankSuffix ==
    (op = "Latitude::parse_uncompressed" /\ ret.ok)
    => LET ds == LatDigits(arg.b)
           k == SpaceCount(ds)
           filled == [j \in 1..6 |-> IF ds[j] = SPACE THEN ZERO ELSE ds[j]]
       IN  /\ k <= 5
           /\ \A j \in 1..6 : IF j > 6 - k THEN ds[j] = SPACE ELSE IsDigit(ds[j])
           /\ Precision_num_digits(ret.val.precision) = k
           /\ ret.val.lat = DegMinValue(DigitsValue(SubSeq(filled, 1, 2)),
                                        DigitsValue(SubSeq(filled, 3, 4)),
                                        DigitsValue(SubSeq(filled, 5, 6)),
                                        arg.b[8] = CH_N)

\* a latitude text with three blanked digits was accepted
C3_Witness ==
    /\ op = "Latitude::parse_uncompressed"
    /\ ret.ok
    /\ SpaceCount(LatDigits(arg.b)) = 3

\* b with the last k of the seven digit positions of DDDMMff set to '0'
ZeroTail(b, k) ==
    [i \in 1..9 |->
        IF i \in {1, 2, 3, 4, 5, 7, 8} /\ (IF i <= 5 THEN i ELSE i - 1) > 7 - k
        THEN ZERO ELSE b[i]]

\* C4 as claimed: parsing 9 bytes gives the very outcome of parsing them
\* with the last num_digits digit positions replaced by '0'.
C4_TailIgnored_Claimed ==
    (op = "Longitude::parse_uncompressed" /\ Len(arg.b) = 9)
    => ret = Longitude_parse_uncompressed(
                 ZeroTail(arg.b, Precision_num_digits(arg.precision)), arg.precision)

\* C4: parsing 9 bytes succeeds exactly if parsing them with the last
\* num_digits digit positions replaced by '0' succeeds, and then with the
\* same value; a failure is InvalidLongitude with the bytes that were given.
C4_TailIgnored ==
    (op = "Longitude::parse_uncompressed" /\ Len(arg.b) = 9)
    => LET z == Longitude_parse_uncompressed(
                    ZeroTail(arg.b, Precision_num_digits(arg.precision)), arg.precision)
       IN  /\ ret.ok = z.ok
           /\ ret.ok => ret.val = z.val
           /\ ~ret.ok => (ret.err = z.err /\ ret.bytes = arg.b)

\* 9 bytes with a non-digit in a position the precision blanks were accepted
C4_Witness ==
    /\ op = "Longitude::parse_uncompressed"
    /\ Len(arg.b) = 9
    /\ arg.precision = "OneMinute"
    /\ arg.b[8] = CH_Z
    /\ ret.ok

\* C5: every failure of Latitude::parse_uncompressed is InvalidLatitude with
\* exactly the bytes given, every failure of Longitude::parse_uncompressed is
\* InvalidLongitude with exactly the bytes given, whatever the input's
\* length and bytes.
C5_FailureCarriesInput ==
    /\ (op = "Latitude::parse_uncompressed" /\ ~ret.ok)
       => (ret.err = "InvalidLatitude" /\ ret.bytes = arg.b)
    /\ (op = "Longitude::parse_uncompressed" /\ ~ret.ok)
       => (ret.err = "InvalidLongitude" /\ ret.bytes = arg.b)

\* an input of 3 bytes was refused
C5_Witness ==
    /\ op = "Latitude::parse_uncompressed"
    /\ Len(arg.b) = 3
    /\ ~ret.ok

InRange(x, k) == ~x.nan /\ x.num <= k * x.den /\ x.num >= -k * x.den

\* C6: a Latitude that new, parse_uncompressed or parse_compressed returns
\* is in [-90, 90], a Longitude in [-180, 180]; new refuses every value
\* outside the range.
C6_Bounded ==
    /\ (op = "Latitude::new") => (ret.some <=> InRange(arg.value, 90))
    /\ (op = "Latitude::new" /\ ret.some) => InRange(ret.v, 90)
    /\ (op = "Latitude::parse_uncompressed" /\ ret.ok) => InRange(ret.val.lat, 90)
    /\ (op = "Latitude::parse_compressed" /\ ret.ok) => InRange(ret.val, 90)
    /\ (op = "Longitude::new") => (ret.some <=> InRange(arg.value, 180))
    /\ (op = "Longitude::new" /\ ret.some) => InRange(ret.v, 180)
    /\ (op = "Longitude::parse_uncompressed" /\ ret.ok) => InRange(ret.val, 180)
    /\ (op = "Longitude::parse_compressed" /\ ret.ok) => InRange(ret.val, 180)

\* the latitude text "9903.50N" was refused
C6_Witness ==
    /\ op = "Latitude::parse_uncompressed"
    /\ arg.b = <<57, 57, 48, 51, 46, 53, 48, 78>>
    /\ ~ret.ok

\* C7: Latitude::encode_uncompressed writes 8 bytes DDMM.ffH; of the six
\* digit positions exactly the last num_digits hold spaces, and the others
\* hold the digits written for the same value at hundredth-of-minute
\* precision.
C7_BlankedTail ==
    (op = "Latitude::encode_uncompressed")
    => LET k == Precision_num_digits(arg.precision)
           full == Latitude_encode_uncompressed(arg.self, Precision_default)
       IN  /\ Len(ret.buf) = 8
           /\ ret.buf[5] = DOT
           /\ ret.buf[8] = (IF arg.self.num >= 0 THEN CH_N ELSE CH_S)
           /\ \A j \in 1..6 :
                 IF j > 6 - k
                 THEN LatDigits(ret.buf)[j] = SPACE
                 ELSE /\ IsDigit(LatDigits(ret.buf)[j])
                      /\ LatDigits(ret.buf)[j] = LatDigits(full)[j]

\* a latitude whose hundredths round up to 100 was written with the
\* last three digits blanked
C7_Witness ==
    /\ op = "Latitude::encode_uncompressed"
    /\ arg.precision = "TenMinute"
    /\ MinFracOf(Abs(arg.self.num), arg.self.den) = 100
    /\ SpaceCount(LatDigits(ret.buf)) = 3

\* C9: for a valid latitude v the number (90 - v) * 380926 is in
\* [0, 91^4), the encoder writes 4 bytes, and Latitude::parse_compressed of
\* them succeeds with a value within 1/380926 degree of v; for a valid
\* longitude v likewise with (180 + v) * 190463 and 1/190463 degree.
C9_CompressedRoundTrip ==
    /\ (op = "Latitude::encode_compressed")
       => /\ (90 * arg.self.den - arg.self.num) * 380926 >= 0
          /\ (90 * arg.self.den - arg.self.num) * 380926 < Pow91(4) * arg.self.den
          /\ ret.ok
          /\ Len(ret.buf) = 4
    /\ (op = "Latitude::encode_compressed" /\ pc = "back")
       => /\ back.ok
          /\ Within(back.val, arg.self, CompGrid * 380926, 380926)
    /\ (op = "Longitude::encode_compressed")
       => /\ (180 * arg.self.den + arg.self.num) * 190463 >= 0
          /\ (180 * arg.self.den + arg.self.num) * 190463 < Pow91(4) * arg.self.den
          /\ ret.ok
          /\ Len(ret.buf) = 4
    /\ (op = "Longitude::encode_compressed" /\ pc = "back")
       => /\ back.ok
          /\ Within(back.val, arg.self, CompGrid * 190463, 190463)

\* the latitude -90, whose number is the largest, was encoded and parsed back
C9_Witness ==
    /\ op = "Latitude::encode_compressed"
    /\ pc = "back"
    /\ arg.self.num = -90 * arg.self.den
    /\ back.ok

\* C10: AprsStatus::decode never fails; if the first 7 bytes of b are a
\* valid timestamp the result holds it and the comment is the rest of b,
\* otherwise the result holds no timestamp and the comment is all of b; to
\* is stored as given and data_type_identifier is '>'.
C10_StatusDecode ==
    (op = "AprsStatus::decode")
    => LET b == arg.b
           ts == IF Len(b) >= 7 THEN Timestamp_try_from(SubSeq(b, 1, 7)) ELSE None
       IN  /\ ret.ok
           /\ ret.val.to = arg.to
           /\ ret.val.data_type_identifier = CH_GT
           /\ ret.val.timestamp = ts
           /\ ts.some => SubSeq(b, 1, 7) \o ret.val.comment = b
           /\ ~ts.some => ret.val.comment = b

\* a report with a timestamp and a comment was decoded
C10_Witness ==
    /\ op = "AprsStatus::decode"
    /\ ret.val.timestamp.some
    /\ Len(ret.val.comment) > 0

\* the minutes a latitude text states, a blanked digit read as 0
TextMinutes(b) ==
    DigitsValue([j \in 1..2 |-> IF b[j + 2] = SPACE THEN ZERO ELSE b[j + 2]])

\* C11: for 8 bytes that Latitude::parse_uncompressed accepts, with minutes
\* in 00..59, Latitude::encode_uncompressed of the parsed latitude at the
\* parsed precision writes the same 8 bytes again.
C11_LatitudeTextReproduced ==
    (pc = "back" /\ op = "Latitude::parse_uncompressed" /\ TextMinutes(arg.b) \in 0..59)
    => back.buf = arg.b

=============================================================================
